---- MODULE Spec2Model ----
(***************************************************************************)
(* Hemodialysis monitor (src/main.py): the head-pose droop detector of     *)
(* update_video, the serial reader thread, send_to_arduino and the         *)
(* heartbeat staleness check of update_dashboard.                          *)
(*                                                                         *)
(* Time is measured in ticks of 0.1 s, so every time-valued program        *)
(* constant is written in ticks.  Temperatures are in tenths of a          *)
(* degree.  The smoothed tilt (a mean of up to SMOOTHING_WINDOW integer    *)
(* pixel distances) is held exactly, scaled by TiltScale.                  *)
(***************************************************************************)
EXTENDS Integers, Sequences, FiniteSets, TLC

\* ------------------------------------------------------- program constants
DROP_THRESHOLD == 40
SMOOTHING_WINDOW == 5
DROOP_SUSTAIN_SECS == 10
ALARM_COOLDOWN_SECS == 30
TEMP_THRESHOLD == 380
LEAK_THRESHOLD == 500
BUBBLE_THRESHOLD == 400
SERIAL_SEND_INTERVAL == 1
MISSING_SECS == 50
HEARTBEAT_TIMEOUT == 50
LOG_MAXLEN == 20
HISTORY_MAXLEN == 50
SETTLE_DELAY == 25
HANDSHAKE_WAIT == 30

\* droop_start_time = None; every real timestamp is >= 0
None == -1

\* lcm(1..SMOOTHING_WINDOW): np.mean of k <= 5 integers, times TiltScale, is an integer
TiltScale == 3 * 4 * 5

\* ------------------------------------------------------------ model bounds
\* time.time() when the GUI starts its ticks
StartTime == 100
\* how long after StartTime the clock is followed
Horizon == 20
LongHorizon == 65
LinkHorizon == 52
\* frames whose processing raises, lines the reader processes
MaxFrameErrors == 1
MaxLines == 2
\* the fast video tick is followed for FastHorizon after StartTime
FastHorizon == 3
\* runs of update_video the fast video tick is followed for
MaxFastTicks == 3
\* frames send_to_arduino writes while the threads are followed step by step
MaxSends == 2
\* lines the reader thread handles while the sample histories are followed
MaxFeed == 52
\* update_video runs while the dashboard cards are followed
MaxPanelTicks == 1

\* clock advances between two runs of a handler
TickSteps == {3, 10}
CoarseSteps == {10, 21}
LinkSteps == {25, 26}
\* video ticks less than, and exactly, SERIAL_SEND_INTERVAL apart
FastSteps == {0, 1}
\* chin_y - nose_y of a face frame, in pixels
RawTilts == {30, 50}

VARIABLES
    now,               \* time.time()
    serial_conn,       \* "None" or "open"
    arduino_status,    \* the DeviceSnapshot dictionary
    cv_status,         \* the published pose state
    event_log, temp_history, ir_history, ldr_history,
    last_seen, last_alarm_time, tilt_buffer, droop_start_time, last_serial_send,
    last_op,           \* history: the handler that ran last
    last_frame,        \* history: the latest run of update_video
    frames,            \* history: the current run of frames of the worked example
    alarm_times,       \* history: every alarm fired by update_video
    suppressed,        \* history: <<path, kind>>: an alarm path held back by the
                       \* cooldown of an earlier alarm of that kind
    raw_seen,          \* history: the last SMOOTHING_WINDOW + 1 raw tilt readings
    frame_errors,      \* history: number of frames whose processing raised
    rx,                \* history: the latest line the reader thread processed,
                       \* and the number of STATUS lines stored so far
    face_t,            \* history: time of the latest frame with a face, or None
    tx,                \* history: the latest call of send_to_arduino by update_video
    video_ticks,       \* history: number of runs of update_video
    startup,           \* how open_serial ended and how long it took
    pc,                \* where the reader thread and the main thread's
                       \* send_to_arduino stand
    serial_lock,       \* "free", or the thread that holds it
    line,              \* the reader thread's local variable line
    send_result,       \* history: how the latest send_to_arduino call ended
    io_failed,         \* history: an except branch of the reader thread or of
                       \* send_to_arduino has run
    panel              \* what the dashboard shows: the temperature card, the
                       \* issues counted, the health card, the connection label

vars == <<now, serial_conn, arduino_status, cv_status, event_log, temp_history,
          ir_history, ldr_history, last_seen, last_alarm_time, tilt_buffer,
          droop_start_time, last_serial_send, last_op, last_frame, frames,
          alarm_times, suppressed, raw_seen, frame_errors, rx, face_t, tx,
          video_ticks, startup, pc, serial_lock, line, send_result, io_failed,
          panel>>

poseVars == <<cv_status, last_seen, last_alarm_time, tilt_buffer, droop_start_time,
              last_serial_send>>
histories == <<temp_history, ir_history, ldr_history>>
poseHist == <<last_frame, frames, alarm_times, suppressed, raw_seen, frame_errors,
              face_t, tx, video_ticks>>
threadVars == <<startup, pc, serial_lock, line, send_result, io_failed>>

\* ------------------------------------------------------------ helpers
RECURSIVE SumSeq(_)
SumSeq(s) == IF s = <<>> THEN 0 ELSE Head(s) + SumSeq(Tail(s))

Last(s) == s[Len(s)]

\* a deque without maxlen: nothing is ever discarded
DequeAppendUnbounded(q, x, n) == Append(q, x)

\* collections.deque(maxlen=n).append(x)
DequeAppend(q, x, n) == IF Len(q) >= n THEN Append(Tail(q), x) ELSE Append(q, x)

\* log_event(message, level); the entry's wall-clock prefix is left out
LogEvent(log, message, level) ==
    DequeAppend(log, [level |-> level, msg |-> message], LOG_MAXLEN)

RECURSIVE LogAll(_, _)
LogAll(log, entries) ==
    IF entries = <<>> THEN log
    ELSE LogAll(LogEvent(log, Head(entries).msg, Head(entries).level), Tail(entries))

\* ------------------------------------------------------------ pose detector
PushTiltUnbounded(buf, raw) == Append(buf, raw)
\* tilt_buffer.append(head_tilt_raw)
PushTilt(buf, raw) == DequeAppend(buf, raw, SMOOTHING_WINDOW)

\* float(np.mean(tilt_buffer)), scaled by TiltScale
MeanTilt(buf) == (SumSeq(buf) * TiltScale) \div Len(buf)

\* head_tilt < DROP_THRESHOLD
BelowThreshold(tilt) == tilt < DROP_THRESHOLD * TiltScale

SustainedStrict(elapsed) == elapsed > DROOP_SUSTAIN_SECS
\* elapsed >= DROOP_SUSTAIN_SECS
Sustained(elapsed) == elapsed >= DROOP_SUSTAIN_SECS

CooldownOverShort(t, last) == t - last > ALARM_COOLDOWN_SECS - DROOP_SUSTAIN_SECS
\* now - last_alarm_time > ALARM_COOLDOWN_SECS
CooldownOver(t, last) == t - last > ALARM_COOLDOWN_SECS

PatientMissingInclusive(t, seen) == t - seen >= MISSING_SECS
\* now - last_seen > 5
PatientMissing(t, seen) == t - seen > MISSING_SECS

EpisodeStartReset(dst, t) == t
\* if droop_start_time is None: droop_start_time = now
EpisodeStart(dst, t) == IF dst = None THEN t ELSE dst

EpisodeEndKeep(dst) == dst
\* else: droop_start_time = None
EpisodeEnd(dst) == None

\* update_video, face branch: the droop state machine for one frame at time t,
\* buf being tilt_buffer after the append
PoseFace(t, buf, dst, lastAlarm) ==
    LET head_tilt == MeanTilt(buf)
        start == EpisodeStart(dst, t)
        elapsed == t - start
    IN  IF BelowThreshold(head_tilt)
        THEN IF Sustained(elapsed)
             THEN [code |-> 2, text |-> "HEAD DROOP", tilt |-> head_tilt, dst |-> start,
                   path |-> "droop", fire |-> CooldownOver(t, lastAlarm)]
             ELSE [code |-> 1, text |-> "Possible Droop", tilt |-> head_tilt,
                   dst |-> start, path |-> "none", fire |-> FALSE]
        ELSE [code |-> 0, text |-> "NORMAL", tilt |-> head_tilt, dst |-> EpisodeEnd(dst),
              path |-> "none", fire |-> FALSE]

\* a no-face branch that ends the droop episode
PoseNoFaceReset(t, seen, dst, lastAlarm) ==
    IF t - seen > MISSING_SECS
    THEN [code |-> 3, text |-> "Missing", tilt |-> 0, dst |-> None,
          path |-> "missing", fire |-> t - lastAlarm > ALARM_COOLDOWN_SECS]
    ELSE [code |-> 3, text |-> "No Face", tilt |-> 0, dst |-> None,
          path |-> "none", fire |-> FALSE]

\* update_video, no-face branch
PoseNoFace(t, seen, dst, lastAlarm) ==
    IF PatientMissing(t, seen)
    THEN [code |-> 3, text |-> "Missing", tilt |-> 0, dst |-> dst,
          path |-> "missing", fire |-> CooldownOver(t, lastAlarm)]
    ELSE [code |-> 3, text |-> "No Face", tilt |-> 0, dst |-> dst,
          path |-> "none", fire |-> FALSE]

\* the log_event call of an alarm that fires
AlarmEntries(p) ==
    IF ~p.fire THEN <<>>
    ELSE IF p.path = "droop" THEN <<[level |-> "ALARM", msg |-> "HEAD DROOP DETECTED!"]>>
    ELSE <<[level |-> "ALARM", msg |-> "Patient missing for 5+ seconds"]>>

SendDueAlways(t, lastSend) == TRUE
\* now - last_serial_send >= SERIAL_SEND_INTERVAL
SendDue(t, lastSend) == t - lastSend >= SERIAL_SEND_INTERVAL

\* f"{head_tilt:.1f}": the tilt (scaled by TiltScale) as text with one decimal, in
\* tenths; a tie (..25, ..75 are exact in binary) goes to the even digit
FormatTilt(tilt) ==
    LET unit == TiltScale \div 10
        q == tilt \div unit
        r == tilt % unit
    IN  IF 2 * r < unit THEN q
        ELSE IF 2 * r > unit THEN q + 1
        ELSE IF q % 2 = 0 THEN q ELSE q + 1

\* msg = f"CV:{int(state_code)},{head_tilt:.1f}\n"
CvFrame(state_code, head_tilt) == [code |-> state_code, tilt |-> FormatTilt(head_tilt)]

SendToArduinoUnchecked(conn, connected, sent, ok) ==
    [conn |-> conn, connected |-> connected, sent |-> sent + 1, entries |-> <<>>,
     ret |-> TRUE, wrote |-> TRUE]
\* send_to_arduino(state_code, head_tilt); ok: the write and flush do not raise
SendToArduino(conn, connected, sent, ok) ==
    IF conn = "None"
    THEN [conn |-> conn, connected |-> connected, sent |-> sent, entries |-> <<>>,
          ret |-> FALSE, wrote |-> FALSE]
    ELSE IF ok
    THEN [conn |-> conn, connected |-> connected, sent |-> sent + 1, entries |-> <<>>,
          ret |-> TRUE, wrote |-> TRUE]
    ELSE [conn |-> "None", connected |-> FALSE, sent |-> sent,
          entries |-> <<[level |-> "ERROR", msg |-> "Serial write error"]>>,
          ret |-> FALSE, wrote |-> FALSE]

FrameInputs ==
    {[kind |-> "face", raw |-> r] : r \in RawTilts}
    \cup {[kind |-> k, raw |-> 0] : k \in {"noface", "noimage", "raise"}}

\* history of the worked example: the current run of consecutive face frames
\* 0.3 s apart whose smoothed tilt is 30, the first of them with no alarm in the
\* 3 s before it; a frame that does not continue the run ends it
ExampleRun(run, prev, f) ==
    LET fits == f.kind = "face" /\ f.tilt = 30 * TiltScale
        rec == [code |-> f.code, alarms |-> f.alarms, dst0 |-> f.dst0]
    IN  IF fits /\ run # <<>> /\ Len(run) < 5 /\ f.t - prev.t = 3
        THEN Append(run, rec)
        ELSE IF fits /\ f.t - f.alarm0 >= ALARM_COOLDOWN_SECS
        THEN <<rec>>
        ELSE <<>>

CountLevel(entries, level) == Cardinality({i \in DOMAIN entries : entries[i].level = level})

\* one run of update_video, at time t, that published a pose (face or no face)
VideoPublish(t, in, ok) ==
    LET face == in.kind = "face"
        buf == IF face THEN PushTilt(tilt_buffer, in.raw) ELSE tilt_buffer
        p == IF face THEN PoseFace(t, buf, droop_start_time, last_alarm_time)
             ELSE PoseNoFace(t, last_seen, droop_start_time, last_alarm_time)
        due == SendDue(t, last_serial_send)
        s == IF due
             THEN SendToArduino(serial_conn, arduino_status.connected,
                                cv_status.messages_sent, ok)
             ELSE [conn |-> serial_conn, connected |-> arduino_status.connected,
                   sent |-> cv_status.messages_sent, entries |-> <<>>,
                   ret |-> FALSE, wrote |-> FALSE]
        logged == AlarmEntries(p) \o s.entries
        f == [t |-> t, kind |-> in.kind, code |-> p.code, tilt |-> p.tilt,
              path |-> p.path, fired |-> p.fire, dst0 |-> droop_start_time,
              alarm0 |-> last_alarm_time, alarms |-> CountLevel(logged, "ALARM"),
              wrote |-> s.wrote, prev |-> last_frame.kind, seen0 |-> last_seen]
    IN  /\ last_seen' = IF face THEN t ELSE last_seen
        /\ tilt_buffer' = buf
        /\ droop_start_time' = p.dst
        /\ last_alarm_time' = IF p.fire THEN t ELSE last_alarm_time
        /\ cv_status' = [state |-> p.code, head_tilt |-> p.tilt, state_text |-> p.text,
                         messages_sent |-> s.sent]
        /\ last_serial_send' = IF due THEN t ELSE last_serial_send
        /\ serial_conn' = s.conn
        /\ arduino_status' = [arduino_status EXCEPT !.connected = s.connected]
        /\ event_log' = LogAll(event_log, logged)
        /\ last_frame' = f
        /\ frames' = ExampleRun(frames, last_frame, f)
        /\ alarm_times' = IF p.fire
                          THEN Append(alarm_times, [t |-> t, kind |-> p.path])
                          ELSE alarm_times
        /\ suppressed' = IF p.path # "none" /\ ~p.fire /\ alarm_times # <<>>
                         THEN suppressed \cup {<<p.path, Last(alarm_times).kind>>}
                         ELSE suppressed
        /\ raw_seen' = IF face THEN DequeAppend(raw_seen, in.raw, SMOOTHING_WINDOW + 1)
                       ELSE raw_seen
        /\ face_t' = IF face THEN t ELSE face_t
        /\ tx' = IF due
                 THEN [called |-> TRUE, t |-> t, msg |-> CvFrame(p.code, p.tilt),
                       ret |-> s.ret,
                       early |-> tx.t # None /\ t - tx.t < SERIAL_SEND_INTERVAL,
                       dropped |-> FALSE, after_drop |-> tx.dropped]
                 ELSE [tx EXCEPT !.called = FALSE, !.dropped = TRUE]
        /\ UNCHANGED <<frame_errors>>

\* one run of update_video that published nothing: cap.read() gave no image, or
\* the processing raised before the pose was computed (logged, swallowed)
VideoSkip(t, in) ==
    /\ in.kind = "raise" => frame_errors < MaxFrameErrors
    /\ event_log' = IF in.kind = "raise"
                    THEN LogEvent(event_log, "Error in video loop", "ERROR")
                    ELSE event_log
    /\ frame_errors' = IF in.kind = "raise" THEN frame_errors + 1 ELSE frame_errors
    /\ last_frame' = [t |-> t, kind |-> in.kind, code |-> cv_status.state,
                      tilt |-> cv_status.head_tilt, path |-> "none", fired |-> FALSE,
                      dst0 |-> droop_start_time, alarm0 |-> last_alarm_time,
                      alarms |-> 0, wrote |-> FALSE, prev |-> last_frame.kind,
                      seen0 |-> last_seen]
    /\ frames' = <<>>
    /\ tx' = [tx EXCEPT !.called = FALSE]
    /\ UNCHANGED <<poseVars, serial_conn, arduino_status, alarm_times, suppressed,
                   raw_seen, face_t>>

\* the video tick: the clock has advanced by some d of steps since the last
\* tick, and is not followed beyond limit
VideoTick(steps, limit) ==
    /\ \E d \in steps, in \in FrameInputs :
          /\ now + d <= limit
          /\ now' = now + d
          /\ IF in.kind \in {"face", "noface"}
             THEN \E ok \in BOOLEAN :
                     /\ (serial_conn = "None" \/ ~SendDue(now + d, last_serial_send)) => ok
                     /\ VideoPublish(now + d, in, ok)
             ELSE VideoSkip(now + d, in)
    /\ video_ticks' = video_ticks + 1
    /\ last_op' = "video"
    /\ UNCHANGED <<histories, rx, threadVars, panel>>

UpdateVideo == VideoTick(TickSteps, StartTime + Horizon)
UpdateVideoCoarse == VideoTick(CoarseSteps, StartTime + LongHorizon)
UpdateVideoFast ==
    /\ video_ticks < MaxFastTicks
    /\ VideoTick(FastSteps, StartTime + FastHorizon)

\* ------------------------------------------------------------ device link
\* an inbound line after decode and strip: its prefix and, for a STATUS line, the
\* comma-separated fields; a field is the text of an integer (k = "int", v its
\* value), of a decimal number (k = "float", v in tenths) or of neither ("bad")
IntText(v) == [k |-> "int", v |-> v]
DecText(v) == [k |-> "float", v |-> v]
BadText == [k |-> "bad", v |-> 0]
StatusLine(fields) == [prefix |-> "STATUS:", fields |-> fields]
TextLine(prefix) == [prefix |-> prefix, fields |-> <<>>]

StatusLines ==
    { StatusLine(<<IntText(0), DecText(365), IntText(200), IntText(600)>>),
      StatusLine(<<IntText(2), DecText(390), IntText(600), IntText(300)>>),
      StatusLine(<<IntText(0), DecText(380), IntText(500), IntText(400)>>),
      StatusLine(<<IntText(1), IntText(37), IntText(501), IntText(399), IntText(7)>>),
      StatusLine(<<IntText(1), BadText>>),
      StatusLine(<<IntText(1), DecText(365), BadText, IntText(600)>>),
      StatusLine(<<BadText, DecText(365), IntText(200), IntText(600)>>),
      StatusLine(<<IntText(0), DecText(365), DecText(2005), IntText(600)>>) }
Lines ==
    StatusLines
    \cup {TextLine(p) : p \in {"WARNING:", "EMERGENCY:", "ERROR:", "OTHER", ""}}

\* int(text): raises ValueError unless the text is an integer
ParseInt(tok) == [ok |-> tok.k = "int", v |-> tok.v]
\* float(text), in tenths: raises ValueError unless the text is a number
ParseFloat(tok) ==
    [ok |-> tok.k \in {"int", "float"}, v |-> IF tok.k = "int" THEN tok.v * 10 ELSE tok.v]

LeakFlagInclusive(ir) == ir >= LEAK_THRESHOLD
\* arduino_status["ir_value"] > LEAK_THRESHOLD
LeakFlag(ir) == ir > LEAK_THRESHOLD
\* arduino_status["ldr_value"] < BUBBLE_THRESHOLD
BubbleFlag(ldr) == ldr < BUBBLE_THRESHOLD
\* arduino_status["temperature"] > TEMP_THRESHOLD
HighTempFlag(temp) == temp > TEMP_THRESHOLD

\* a STATUS branch that refreshes the heartbeat and leaves connected alone
StatusBranchKeepsLink(st, hist, parts, t) ==
    LET s0 == [st EXCEPT !.last_heartbeat = t]
    IN  IF Len(parts) < 4 THEN [st |-> s0, hist |-> hist, raised |-> FALSE]
        ELSE LET c == ParseInt(parts[1])
                 tm == ParseFloat(parts[2])
                 ir == ParseInt(parts[3])
                 ldr == ParseInt(parts[4])
                 s1 == [s0 EXCEPT !.cv_state = c.v]
                 s2 == [s1 EXCEPT !.temperature = tm.v]
                 s3 == [s2 EXCEPT !.ir_value = ir.v]
                 s4 == [s3 EXCEPT !.ldr_value = ldr.v]
             IN  IF ~c.ok THEN [st |-> s0, hist |-> hist, raised |-> TRUE]
                 ELSE IF ~tm.ok THEN [st |-> s1, hist |-> hist, raised |-> TRUE]
                 ELSE IF ~ir.ok THEN [st |-> s2, hist |-> hist, raised |-> TRUE]
                 ELSE IF ~ldr.ok THEN [st |-> s3, hist |-> hist, raised |-> TRUE]
                 ELSE [st |-> [s4 EXCEPT !.leak_detected = LeakFlag(ir.v),
                                         !.bubble_detected = BubbleFlag(ldr.v),
                                         !.high_temp = HighTempFlag(tm.v)],
                       hist |-> [temp |-> DequeAppend(hist.temp, tm.v, HISTORY_MAXLEN),
                                 ir |-> DequeAppend(hist.ir, ir.v, HISTORY_MAXLEN),
                                 ldr |-> DequeAppend(hist.ldr, ldr.v, HISTORY_MAXLEN)],
                       raised |-> FALSE]

\* serial_reader_thread, the STATUS: branch for the fields parts at time t: the
\* assignments are made one by one, so a field that does not parse leaves the
\* earlier ones stored and raises
StatusBranch(st, hist, parts, t) ==
    LET s0 == [st EXCEPT !.last_heartbeat = t, !.connected = TRUE]
    IN  IF Len(parts) < 4 THEN [st |-> s0, hist |-> hist, raised |-> FALSE]
        ELSE LET c == ParseInt(parts[1])
                 tm == ParseFloat(parts[2])
                 ir == ParseInt(parts[3])
                 ldr == ParseInt(parts[4])
                 s1 == [s0 EXCEPT !.cv_state = c.v]
                 s2 == [s1 EXCEPT !.temperature = tm.v]
                 s3 == [s2 EXCEPT !.ir_value = ir.v]
                 s4 == [s3 EXCEPT !.ldr_value = ldr.v]
             IN  IF ~c.ok THEN [st |-> s0, hist |-> hist, raised |-> TRUE]
                 ELSE IF ~tm.ok THEN [st |-> s1, hist |-> hist, raised |-> TRUE]
                 ELSE IF ~ir.ok THEN [st |-> s2, hist |-> hist, raised |-> TRUE]
                 ELSE IF ~ldr.ok THEN [st |-> s3, hist |-> hist, raised |-> TRUE]
                 ELSE [st |-> [s4 EXCEPT !.leak_detected = LeakFlag(ir.v),
                                         !.bubble_detected = BubbleFlag(ldr.v),
                                         !.high_temp = HighTempFlag(tm.v)],
                       hist |-> [temp |-> DequeAppend(hist.temp, tm.v, HISTORY_MAXLEN),
                                 ir |-> DequeAppend(hist.ir, ir.v, HISTORY_MAXLEN),
                                 ldr |-> DequeAppend(hist.ldr, ldr.v, HISTORY_MAXLEN)],
                       raised |-> FALSE]

\* a reader that logs nothing for an EMERGENCY: line
TextLevelNoAlarm(prefix) ==
    IF prefix = "WARNING:" THEN "WARN"
    ELSE IF prefix = "ERROR:" THEN "ERROR"
    ELSE "none"

\* the level log_event is called with for a line that is not a STATUS line
TextLevel(prefix) ==
    IF prefix = "WARNING:" THEN "WARN"
    ELSE IF prefix = "EMERGENCY:" THEN "ALARM"
    ELSE IF prefix = "ERROR:" THEN "ERROR"
    ELSE "none"

Snapshot ==
    [status |-> arduino_status, temp |-> temp_history, ir |-> ir_history,
     ldr |-> ldr_history, conn |-> serial_conn, log |-> event_log]

\* serial_reader_thread: one pass of the loop that reads the line in.line, or
\* whose read raises (in.raises); the except branch is part of the pass
ReaderHandles(in) ==
    LET hist == [temp |-> temp_history, ir |-> ir_history, ldr |-> ldr_history]
        isStatus == ~in.raises /\ in.line.prefix = "STATUS:"
        r == IF isStatus THEN StatusBranch(arduino_status, hist, in.line.fields, now)
             ELSE [st |-> arduino_status, hist |-> hist, raised |-> in.raises]
        level == IF in.raises THEN "none" ELSE TextLevel(in.line.prefix)
        log1 == IF level = "none" THEN event_log
                ELSE LogEvent(event_log, "device text", level)
        stored == isStatus /\ Len(in.line.fields) >= 4 /\ ~r.raised
    IN  /\ serial_conn = "open"
        /\ temp_history' = r.hist.temp
        /\ ir_history' = r.hist.ir
        /\ ldr_history' = r.hist.ldr
        /\ IF r.raised
           THEN /\ event_log' = LogEvent(log1, "Serial reader error", "ERROR")
                /\ serial_conn' = "None"
                /\ arduino_status' = [r.st EXCEPT !.connected = FALSE]
           ELSE /\ event_log' = log1
                /\ serial_conn' = serial_conn
                /\ arduino_status' = r.st
        /\ rx' = [n |-> rx.n + 1, t |-> now, raises |-> in.raises, line |-> in.line,
                  before |-> Snapshot, raised |-> r.raised,
                  valid |-> IF stored THEN rx.valid + 1 ELSE rx.valid]

\* a pass of the reader loop, followed for MaxLines lines
ReaderPass(in) ==
    /\ rx.n < MaxLines
    /\ ReaderHandles(in)

ReaderInputs ==
    {[raises |-> FALSE, line |-> l] : l \in Lines}
    \cup {[raises |-> TRUE, line |-> TextLine("")]}

ReaderStep ==
    /\ \E in \in ReaderInputs : ReaderPass(in)
    /\ last_op' = "reader"
    /\ UNCHANGED <<now, poseVars, poseHist, threadVars, panel>>

\* the k-th sample the device reports: STATUS:0,<30.0 + k/10>,<k>,<1000 - k>
Sample(k) ==
    StatusLine(<<IntText(0), DecText(300 + k), IntText(k), IntText(1000 - k)>>)

\* a pass of the reader loop that reads the device's next sample, or a line
\* that is no STATUS line
ReaderFeed ==
    /\ rx.n < MaxFeed
    /\ \E l \in {Sample(rx.valid + 1), TextLine("OTHER")} :
          ReaderHandles([raises |-> FALSE, line |-> l])
    /\ last_op' = "reader"
    /\ UNCHANGED <<now, poseVars, poseHist, threadVars, panel>>

HeartbeatStaleLate(t, hb) == t - hb > HEARTBEAT_TIMEOUT + DROOP_SUSTAIN_SECS
\* (time.time() - arduino_status["last_heartbeat"]) > 5.0
HeartbeatStale(t, hb) == t - hb > HEARTBEAT_TIMEOUT

\* update_dashboard: the heartbeat staleness check (the rest of the handler only
\* reads the shared state and redraws)
\* the text of the temperature card: "--" while disconnected, "ERR" for a
\* sensor-fault reading, else the reading
TempText(connected, temp) ==
    IF ~connected THEN "--"
    ELSE IF temp = -1270 \/ temp < -1000 THEN "ERR"
    ELSE "value"

\* the temperature's term of the issues sum: high_temp or temp == -127.0
TempIssue(high_temp, temp) == high_temp \/ temp = -1270

\* issues = sum([leak_detected, bubble_detected, high_temp or temp == -127.0,
\*               cv_status['state'] in [1, 2, 3]])
Issues(st, cv) ==
    (IF st.leak_detected THEN 1 ELSE 0)
    + (IF st.bubble_detected THEN 1 ELSE 0)
    + (IF TempIssue(st.high_temp, st.temperature) THEN 1 ELSE 0)
    + (IF cv.state \in {1, 2, 3} THEN 1 ELSE 0)

\* the health card: 100%, 75%, 50%, else 25%
HealthPercent(issues) ==
    IF issues = 0 THEN 100
    ELSE IF issues = 1 THEN 75
    ELSE IF issues = 2 THEN 50
    ELSE 25

\* update_dashboard: the temperature card, the health card, then the staleness
\* check and the connection label
UpdateDashboard ==
    /\ IF arduino_status.connected /\ HeartbeatStale(now, arduino_status.last_heartbeat)
       THEN /\ arduino_status' = [arduino_status EXCEPT !.connected = FALSE]
            /\ event_log' = LogEvent(event_log, "Arduino heartbeat lost!", "ERROR")
       ELSE UNCHANGED <<arduino_status, event_log>>
    /\ panel' = [temp_text |-> TempText(arduino_status.connected,
                                        arduino_status.temperature),
                 temp_issue |-> TempIssue(arduino_status.high_temp,
                                          arduino_status.temperature),
                 issues |-> Issues(arduino_status, cv_status),
                 health |-> HealthPercent(Issues(arduino_status, cv_status)),
                 link |-> IF ~arduino_status.connected THEN "Disconnected"
                          ELSE IF HeartbeatStale(now, arduino_status.last_heartbeat)
                               THEN "No Heartbeat"
                               ELSE "Connected"]
    /\ last_op' = "dashboard"
    /\ UNCHANGED <<now, serial_conn, histories, poseVars, poseHist, rx, threadVars>>

\* lines of a device whose temperature probe fails (-127.0, -110.0) or works,
\* with no leak and no bubble, and the device's emergency message
PanelLines ==
    { StatusLine(<<IntText(0), DecText(t), IntText(200), IntText(600)>>) :
        t \in {-1270, -1100, 365} }
    \cup {TextLine("EMERGENCY:")}

\* a pass of the reader loop over these lines
ReaderPanel ==
    /\ \E l \in PanelLines : ReaderPass([raises |-> FALSE, line |-> l])
    /\ last_op' = "reader"
    /\ UNCHANGED <<now, poseVars, poseHist, threadVars, panel>>

\* update_video, for MaxPanelTicks runs at most 0.1 s apart
UpdateVideoPanel ==
    /\ video_ticks < MaxPanelTicks
    /\ VideoTick(FastSteps, StartTime + FastHorizon)

\* the clock advances while no handler runs
Tick ==
    /\ \E d \in LinkSteps :
          /\ now + d <= StartTime + LinkHorizon
          /\ now' = now + d
    /\ last_op' = "tick"
    /\ UNCHANGED <<serial_conn, arduino_status, event_log, histories, poseVars,
                   poseHist, rx, threadVars, panel>>

\* ------------------------------------------------------------ threads
\* The reader thread and a send_to_arduino call of the main thread, followed
\* statement by statement: every read of the global serial_conn, every acquire
\* and release of serial_lock is a step of its own.  pc.reader is "off" (the
\* thread was never started), "test", "in_waiting", "lock", "readline", "line" or
\* "except"; pc.main is "idle", "is_none", "is_open", "lock", "write" or "except",
\* or, inside update_dashboard, "heartbeat" (connected was read as true) or
\* "lost" (the heartbeat was found stale, connected is not yet written).

\* what readline() yields while the threads are followed
ThreadInputs ==
    {[raises |-> FALSE, line |-> l] :
        l \in { StatusLine(<<IntText(2), DecText(390), IntText(600), IntText(300)>>),
                StatusLine(<<IntText(1), DecText(365), BadText, IntText(600)>>),
                TextLine("EMERGENCY:") }}
    \cup {[raises |-> TRUE, line |-> TextLine("")]}

LockFreeAlways(lock) == TRUE
\* with serial_lock: the lock can be acquired
LockFree(lock) == lock = "free"

\* if serial_conn and ...: the first read of the handle (a handle that is None
\* sends the thread to sleep and to the same test again)
ReaderTest ==
    /\ pc.reader = "test"
    /\ serial_conn = "open"
    /\ pc' = [pc EXCEPT !.reader = "in_waiting"]
    /\ last_op' = "reader"
    /\ UNCHANGED <<now, serial_conn, arduino_status, event_log, histories, poseVars,
                   poseHist, rx, startup, panel, serial_lock, line, send_result, io_failed>>

\* serial_conn.is_open and serial_conn.in_waiting > 0: AttributeError if the
\* handle has been cleared since the test; without input the loop starts over
ReaderInWaiting ==
    /\ pc.reader = "in_waiting"
    /\ IF serial_conn = "None"
       THEN pc' = [pc EXCEPT !.reader = "except"]
       ELSE \E waiting \in BOOLEAN :
               /\ waiting => rx.n < MaxLines
               /\ pc' = [pc EXCEPT !.reader = IF waiting THEN "lock" ELSE "test"]
    /\ last_op' = "reader"
    /\ UNCHANGED <<now, serial_conn, arduino_status, event_log, histories, poseVars,
                   poseHist, rx, startup, panel, serial_lock, line, send_result, io_failed>>

\* with serial_lock: entered
ReaderLock ==
    /\ pc.reader = "lock"
    /\ LockFree(serial_lock)
    /\ serial_lock' = "reader"
    /\ pc' = [pc EXCEPT !.reader = "readline"]
    /\ last_op' = "reader"
    /\ UNCHANGED <<now, serial_conn, arduino_status, event_log, histories, poseVars,
                   poseHist, rx, startup, panel, line, send_result, io_failed>>

\* line = serial_conn.readline()...strip(), and the with block left: the lock is
\* released whether the call returned or raised
ReaderReadline ==
    /\ pc.reader = "readline"
    /\ serial_lock' = "free"
    /\ IF serial_conn = "None"
       THEN /\ pc' = [pc EXCEPT !.reader = "except"]
            /\ UNCHANGED <<line, rx>>
       ELSE \E in \in ThreadInputs :
               /\ line' = in.line
               /\ rx' = [rx EXCEPT !.n = rx.n + 1, !.t = now, !.raises = in.raises,
                                   !.line = in.line]
               /\ pc' = [pc EXCEPT !.reader = IF in.raises THEN "except" ELSE "line"]
    /\ last_op' = "reader"
    /\ UNCHANGED <<now, serial_conn, arduino_status, event_log, histories, poseVars,
                   poseHist, startup, panel, send_result, io_failed>>

\* if line: ... the line is handled, outside the lock
ReaderLine ==
    LET hist == [temp |-> temp_history, ir |-> ir_history, ldr |-> ldr_history]
        r == IF line.prefix = "STATUS:"
             THEN StatusBranch(arduino_status, hist, line.fields, now)
             ELSE [st |-> arduino_status, hist |-> hist, raised |-> FALSE]
        level == TextLevel(line.prefix)
    IN  /\ pc.reader = "line"
        /\ arduino_status' = r.st
        /\ temp_history' = r.hist.temp
        /\ ir_history' = r.hist.ir
        /\ ldr_history' = r.hist.ldr
        /\ event_log' = IF level = "none" THEN event_log
                        ELSE LogEvent(event_log, "device text", level)
        /\ rx' = [rx EXCEPT !.before = Snapshot, !.raised = r.raised,
                            !.valid = IF line.prefix = "STATUS:" /\ Len(line.fields) >= 4
                                         /\ ~r.raised
                                      THEN rx.valid + 1 ELSE rx.valid]
        /\ pc' = [pc EXCEPT !.reader = IF r.raised THEN "except" ELSE "test"]
        /\ last_op' = "reader"
        /\ UNCHANGED <<now, serial_conn, poseVars, poseHist, startup, panel, serial_lock,
                       line, send_result, io_failed>>

\* except Exception: if serial_conn: log_event(...); serial_conn = None;
\* arduino_status["connected"] = False; time.sleep(1)
ReaderExcept ==
    /\ pc.reader = "except"
    /\ event_log' = IF serial_conn # "None"
                    THEN LogEvent(event_log, "Serial reader error", "ERROR")
                    ELSE event_log
    /\ serial_conn' = "None"
    /\ arduino_status' = [arduino_status EXCEPT !.connected = FALSE]
    /\ io_failed' = TRUE
    /\ pc' = [pc EXCEPT !.reader = "test"]
    /\ last_op' = "reader"
    /\ UNCHANGED <<now, histories, poseVars, poseHist, rx, startup, panel, serial_lock, line,
                   send_result>>

\* update_video calls send_to_arduino(send_state_code, send_tilt_val)
SendCall ==
    /\ pc.main = "idle"
    /\ cv_status.messages_sent < MaxSends
    /\ pc' = [pc EXCEPT !.main = "is_none"]
    /\ send_result' = "none"
    /\ last_op' = "send"
    /\ UNCHANGED <<now, serial_conn, arduino_status, event_log, histories, poseVars,
                   poseHist, rx, startup, panel, serial_lock, line, io_failed>>

\* if ... serial_conn is None ...: return False
SendIsNone ==
    /\ pc.main = "is_none"
    /\ IF serial_conn = "None"
       THEN /\ pc' = [pc EXCEPT !.main = "idle"]
            /\ send_result' = "False"
       ELSE /\ pc' = [pc EXCEPT !.main = "is_open"]
            /\ UNCHANGED send_result
    /\ last_op' = "send"
    /\ UNCHANGED <<now, serial_conn, arduino_status, event_log, histories, poseVars,
                   poseHist, rx, startup, panel, serial_lock, line, io_failed>>

\* ... or not serial_conn.is_open: the second read of the handle, before the try;
\* on a handle cleared since the first read the AttributeError leaves
\* send_to_arduino and is logged by the except branch of update_video
SendIsOpen ==
    /\ pc.main = "is_open"
    /\ IF serial_conn = "None"
       THEN /\ pc' = [pc EXCEPT !.main = "idle"]
            /\ send_result' = "raised"
            /\ event_log' = LogEvent(event_log, "Error in video loop", "ERROR")
       ELSE /\ pc' = [pc EXCEPT !.main = "lock"]
            /\ UNCHANGED <<send_result, event_log>>
    /\ last_op' = "send"
    /\ UNCHANGED <<now, serial_conn, arduino_status, histories, poseVars, poseHist,
                   rx, startup, panel, serial_lock, line, io_failed>>

\* try: with serial_lock: entered
SendLock ==
    /\ pc.main = "lock"
    /\ LockFree(serial_lock)
    /\ serial_lock' = "main"
    /\ pc' = [pc EXCEPT !.main = "write"]
    /\ last_op' = "send"
    /\ UNCHANGED <<now, serial_conn, arduino_status, event_log, histories, poseVars,
                   poseHist, rx, startup, panel, line, send_result, io_failed>>

\* serial_conn.write(...); serial_conn.flush(), and the with block left; then
\* cv_status["messages_sent"] += 1; return True.  The write raises on a handle
\* cleared since the check (AttributeError) or when the transport fails
SendWrite ==
    /\ pc.main = "write"
    /\ serial_lock' = "free"
    /\ \E ok \in BOOLEAN :
          /\ serial_conn = "None" => ~ok
          /\ IF ok
             THEN /\ cv_status' = [cv_status EXCEPT !.messages_sent = @ + 1]
                  /\ send_result' = "True"
                  /\ pc' = [pc EXCEPT !.main = "idle"]
             ELSE /\ pc' = [pc EXCEPT !.main = "except"]
                  /\ UNCHANGED <<cv_status, send_result>>
    /\ last_op' = "send"
    /\ UNCHANGED <<now, serial_conn, arduino_status, event_log, histories, last_seen,
                   last_alarm_time, tilt_buffer, droop_start_time, last_serial_send,
                   poseHist, rx, startup, panel, line, io_failed>>

\* except Exception: log_event(...); serial_conn = None;
\* arduino_status["connected"] = False; return False
SendExcept ==
    /\ pc.main = "except"
    /\ event_log' = LogEvent(event_log, "Serial write error", "ERROR")
    /\ serial_conn' = "None"
    /\ arduino_status' = [arduino_status EXCEPT !.connected = FALSE]
    /\ io_failed' = TRUE
    /\ send_result' = "failed"
    /\ pc' = [pc EXCEPT !.main = "idle"]
    /\ last_op' = "send"
    /\ UNCHANGED <<now, histories, poseVars, poseHist, rx, startup, panel, serial_lock, line>>

\* update_dashboard up to the read of arduino_status["connected"]: the cards are
\* drawn, and a link read as down is labelled "Disconnected"
DashConnected ==
    /\ pc.main = "idle"
    /\ panel' = [temp_text |-> TempText(arduino_status.connected,
                                        arduino_status.temperature),
                 temp_issue |-> TempIssue(arduino_status.high_temp,
                                          arduino_status.temperature),
                 issues |-> Issues(arduino_status, cv_status),
                 health |-> HealthPercent(Issues(arduino_status, cv_status)),
                 link |-> IF arduino_status.connected THEN panel.link
                          ELSE "Disconnected"]
    /\ pc' = [pc EXCEPT !.main = IF arduino_status.connected THEN "heartbeat"
                                 ELSE "idle"]
    /\ last_op' = "dashboard"
    /\ UNCHANGED <<now, serial_conn, arduino_status, event_log, histories, poseVars,
                   poseHist, rx, startup, serial_lock, line, send_result, io_failed>>

\* if (time.time() - arduino_status["last_heartbeat"]) > 5.0: the label is set
\* to "No Heartbeat", else to "Connected"
DashHeartbeat ==
    /\ pc.main = "heartbeat"
    /\ IF HeartbeatStale(now, arduino_status.last_heartbeat)
       THEN /\ panel' = [panel EXCEPT !.link = "No Heartbeat"]
            /\ pc' = [pc EXCEPT !.main = "lost"]
       ELSE /\ panel' = [panel EXCEPT !.link = "Connected"]
            /\ pc' = [pc EXCEPT !.main = "idle"]
    /\ last_op' = "dashboard"
    /\ UNCHANGED <<now, serial_conn, arduino_status, event_log, histories, poseVars,
                   poseHist, rx, startup, serial_lock, line, send_result, io_failed>>

\* arduino_status["connected"] = False; log_event("Arduino heartbeat lost!", ...)
DashLost ==
    /\ pc.main = "lost"
    /\ arduino_status' = [arduino_status EXCEPT !.connected = FALSE]
    /\ event_log' = LogEvent(event_log, "Arduino heartbeat lost!", "ERROR")
    /\ pc' = [pc EXCEPT !.main = "idle"]
    /\ last_op' = "dashboard"
    /\ UNCHANGED <<now, serial_conn, histories, poseVars, poseHist, rx, startup, panel,
                   serial_lock, line, send_result, io_failed>>

\* ------------------------------------------------------------ start-up
\* arduino_status as initialised at module load
StatusAtLoad ==
    [connected |-> FALSE, last_heartbeat |-> 0, cv_state |-> -1, temperature |-> 0,
     ir_value |-> 0, ldr_value |-> 0, leak_detected |-> FALSE,
     bubble_detected |-> FALSE, high_temp |-> FALSE]

\* open_serial as called from __main__: how it ended and how long it took
\* (sleep 2.5 s, then up to 3 s of waiting for the acknowledgment)
\* "error": the port opened and writing PYTHON_READY raised
StartOutcomes ==
    { [how |-> "noport", took |-> 0],
      [how |-> "error", took |-> SETTLE_DELAY],
      [how |-> "ack", took |-> SETTLE_DELAY],
      [how |-> "timeout", took |-> SETTLE_DELAY + HANDSHAKE_WAIT] }

OpenedOnAck(o) == o.how = "ack"
\* open_serial() returned True
Opened(o) == o.how \in {"ack", "timeout"}

StartLog(o) ==
    LET l0 == LogEvent(LogEvent(<<>>, "Akatsuki Medical System Initializing", "INFO"),
                       "Dawn Protocol Active", "INFO")
    IN  IF o.how = "noport"
        THEN LogEvent(LogEvent(l0, "No COM ports found!", "ERROR"),
                      "Running in CV-only mode", "WARN")
        ELSE IF o.how = "error"
        THEN LogEvent(LogEvent(LogEvent(l0, "Connected", "SUCCESS"),
                               "Serial error", "ERROR"),
                      "Running in CV-only mode", "WARN")
        ELSE LET l1 == LogEvent(l0, "Connected", "SUCCESS")
                 l2 == IF o.how = "ack"
                       THEN LogEvent(l1, "Handshake complete", "SUCCESS")
                       ELSE LogEvent(l1, "Handshake timed out, proceeding...", "WARN")
             IN  LogEvent(l2, "Hardware interface established", "SUCCESS")

\* the state when the GUI starts its ticks: last_seen was set at module load,
\* o.took before now
InitWith(o) ==
    /\ now = StartTime
    /\ serial_conn = IF Opened(o) THEN "open" ELSE "None"
    /\ arduino_status = IF Opened(o)
                        THEN [StatusAtLoad EXCEPT !.connected = TRUE,
                                                  !.last_heartbeat = StartTime]
                        ELSE StatusAtLoad
    /\ cv_status = [state |-> 3, head_tilt |-> 0, state_text |-> "Initializing...",
                    messages_sent |-> 0]
    /\ event_log = StartLog(o)
    /\ temp_history = <<>>
    /\ ir_history = <<>>
    /\ ldr_history = <<>>
    /\ last_seen = StartTime - o.took
    /\ last_alarm_time = 0
    /\ tilt_buffer = <<>>
    /\ droop_start_time = None
    /\ last_serial_send = 0
    /\ last_op = "init"
    /\ last_frame = [t |-> 0, kind |-> "none", code |-> 3, tilt |-> 0, path |-> "none",
                     fired |-> FALSE, dst0 |-> None, alarm0 |-> 0, alarms |-> 0,
                     wrote |-> FALSE, prev |-> "none", seen0 |-> 0]
    /\ frames = <<>>
    /\ alarm_times = <<>>
    /\ suppressed = {}
    /\ raw_seen = <<>>
    /\ frame_errors = 0
    /\ rx = [n |-> 0, t |-> 0, raises |-> FALSE, line |-> TextLine(""),
             before |-> [status |-> StatusAtLoad, temp |-> <<>>, ir |-> <<>>,
                         ldr |-> <<>>, conn |-> "None", log |-> <<>>],
             raised |-> FALSE, valid |-> 0]
    /\ face_t = None
    /\ tx = [called |-> FALSE, t |-> None, msg |-> CvFrame(3, 0), ret |-> FALSE,
             early |-> FALSE, dropped |-> FALSE, after_drop |-> FALSE]
    /\ video_ticks = 0
    /\ startup = o
    /\ pc = [reader |-> IF Opened(o) THEN "test" ELSE "off", main |-> "idle"]
    /\ serial_lock = "free"
    /\ line = TextLine("")
    /\ send_result = "none"
    /\ io_failed = FALSE
    /\ panel = [temp_text |-> "--", temp_issue |-> FALSE, issues |-> 0,
                health |-> None, link |-> "Disconnected"]

Init == \E o \in StartOutcomes : InitWith(o)

\* ------------------------------------------------------------ specifications
\* the video tick at 0.3 s and 1 s steps: the pose detector
NextPose == UpdateVideo
SpecPose == Init /\ [][NextPose]_vars

\* the video tick at 1 s and 2.1 s steps, followed long enough for two alarms
NextAlarm == UpdateVideoCoarse
SpecAlarm == Init /\ [][NextAlarm]_vars

\* the reader thread and the dashboard tick, the clock advancing between them
NextLink == Tick \/ ReaderStep \/ UpdateDashboard
SpecLink == Init /\ [][NextLink]_vars

\* the reader thread fed with numbered samples
NextFeed == ReaderFeed
SpecFeed == Init /\ [][NextFeed]_vars

\* the dashboard cards: update_video, the reader thread and update_dashboard
NextPanel == UpdateVideoPanel \/ ReaderPanel \/ UpdateDashboard
SpecPanel == Init /\ [][NextPanel]_vars

\* the reader thread and send_to_arduino interleaved statement by statement
NextThreads ==
    \/ ReaderTest \/ ReaderInWaiting \/ ReaderLock \/ ReaderReadline \/ ReaderLine
    \/ ReaderExcept
    \/ SendCall \/ SendIsNone \/ SendIsOpen \/ SendLock \/ SendWrite \/ SendExcept
SpecThreads == Init /\ [][NextThreads]_vars

\* the reader thread and update_dashboard interleaved statement by statement
NextRace ==
    \/ Tick
    \/ ReaderTest \/ ReaderInWaiting \/ ReaderLock \/ ReaderReadline \/ ReaderLine
    \/ ReaderExcept
    \/ DashConnected \/ DashHeartbeat \/ DashLost
SpecRace == Init /\ [][NextRace]_vars

\* the video tick at steps of 0 and 0.1 s, and the dashboard tick
NextFast == UpdateVideoFast \/ UpdateDashboard
SpecFast == Init /\ [][NextFast]_vars

\* ------------------------------------------------------------ claims: pose detector
\* the arithmetic mean, scaled by TiltScale, of the last min(5, n) raw readings
MeanOfLast5(readings) ==
    LET n == Len(readings)
        k == IF n < 5 THEN n ELSE 5
    IN  (SumSeq(SubSeq(readings, n - k + 1, n)) * TiltScale) \div k

\* C1: any two alarms fired by update_video, droop or missing-patient, have
\* timestamps (the values given to last_alarm_time) at least 3.0 s apart.
C1_AlarmSpacing ==
    /\ \A i, j \in DOMAIN alarm_times :
          i < j => alarm_times[j].t - alarm_times[i].t >= 30
    /\ alarm_times # <<>> => last_alarm_time = Last(alarm_times).t

\* a missing-patient alarm and a droop alarm have both fired, and a confirmed
\* droop was held back by the cooldown of the missing-patient alarm
C1_Witness ==
    /\ \E i, j \in DOMAIN alarm_times : alarm_times[i].kind # alarm_times[j].kind
    /\ <<"droop", "missing">> \in suppressed

\* C2: on a face frame the published code is 2 iff the smoothed tilt is below 40
\* and the droop episode has lasted >= 1.0 s, 1 if below 40 and < 1.0 s, 0 if the
\* tilt is >= 40; the cooldown of the alarm plays no part.
C2_PoseCode ==
    last_frame.kind = "face" =>
        LET below == cv_status.head_tilt < 40 * TiltScale
            elapsed == last_frame.t - droop_start_time
        IN  /\ cv_status.state = 2 <=> (below /\ elapsed >= 10)
            /\ (below /\ elapsed < 10) => cv_status.state = 1
            /\ ~below => cv_status.state = 0

\* a face frame published as DROOP_CONFIRMED whose alarm the cooldown held back
C2_Witness ==
    /\ last_frame.kind = "face"
    /\ cv_status.state = 2
    /\ last_frame.path = "droop"
    /\ ~last_frame.fired

\* C3: droop_start_time is set to the frame time on the first frame of a run of
\* frames with sub-threshold smoothed tilt, kept by the later frames of the run,
\* and reset to None by the first frame at or above the threshold (frames
\* without a face have no smoothed tilt and leave it alone); so it is non-None
\* exactly while the latest smoothed tilt is below the threshold.
C3_EpisodeStart ==
    LET f == last_frame
        below == f.tilt < 40 * TiltScale
    IN  /\ (f.kind = "face" /\ below /\ f.dst0 = None) => droop_start_time = f.t
        /\ (f.kind = "face" /\ below /\ f.dst0 # None) => droop_start_time = f.dst0
        /\ (f.kind = "face" /\ ~below) => droop_start_time = None
        /\ f.kind # "face" => droop_start_time = f.dst0
        /\ droop_start_time # None
              <=> (raw_seen # <<>> /\ MeanOfLast5(raw_seen) < 40 * TiltScale)

\* a frame at or above the threshold has just ended a droop episode
C3_Witness ==
    /\ last_frame.kind = "face"
    /\ last_frame.tilt >= 40 * TiltScale
    /\ last_frame.dst0 # None
    /\ droop_start_time = None

\* C4 as stated: five consecutive face frames 0.3 s apart with smoothed tilt 30
\* and no alarm in the 3 s before: POSSIBLE_DROOP on frames 1-3, DROOP_CONFIRMED
\* from frame 4 on, and exactly one ALARM log entry.
C4_AsStated ==
    Len(frames) = 5 =>
        /\ \A i \in 1..3 : frames[i].code = 1
        /\ \A i \in 4..5 : frames[i].code = 2
        /\ SumSeq([i \in 1..5 |-> frames[i].alarms]) = 1

\* C4 as amended: with no droop episode in progress before frame 1, the elapsed
\* times are 0, 0.3, 0.6, 0.9 and 1.2 s: POSSIBLE_DROOP on frames 1-4,
\* DROOP_CONFIRMED on frame 5, which logs the one ALARM entry.
C4_Example ==
    (Len(frames) = 5 /\ frames[1].dst0 = None) =>
        /\ \A i \in 1..4 : frames[i].code = 1 /\ frames[i].alarms = 0
        /\ frames[5].code = 2 /\ frames[5].alarms = 1

\* five such frames have run, the first of them starting the droop episode
C4_Witness == Len(frames) = 5 /\ frames[1].dst0 = None

\* C5: the tilt published on a face frame is the arithmetic mean of the last
\* min(5, n) raw readings, and tilt_buffer never holds more than 5 entries.
C5_Smoothing ==
    /\ Len(tilt_buffer) <= 5
    /\ last_frame.kind = "face" =>
          /\ cv_status.head_tilt = MeanOfLast5(raw_seen)
          /\ last_frame.tilt = cv_status.head_tilt

\* the sixth reading has pushed a different first reading out of the buffer
C5_Witness ==
    /\ last_frame.kind = "face"
    /\ Len(raw_seen) = 6
    /\ raw_seen[1] = 50
    /\ \A i \in 2..6 : raw_seen[i] = 30
    /\ cv_status.head_tilt = 30 * TiltScale

\* ------------------------------------------------------------ claims: device link
\* STATUS:<c>,<t>,<ir>,<ldr> with an integer code, a numeric temperature and
\* integer sensor values (further fields may follow)
WellFormedStatus(l) ==
    /\ l.prefix = "STATUS:"
    /\ Len(l.fields) >= 4
    /\ l.fields[1].k = "int"
    /\ l.fields[2].k \in {"int", "float"}
    /\ l.fields[3].k = "int"
    /\ l.fields[4].k = "int"

\* a STATUS line with fewer than 4 fields, or a non-numeric one among the first four
MalformedStatus(l) ==
    /\ l.prefix = "STATUS:"
    /\ \/ Len(l.fields) < 4
       \/ \E i \in 1..4 : l.fields[i].k = "bad"

\* the number a field's text denotes, in tenths
Tenths(tok) == IF tok.k = "int" THEN 10 * tok.v ELSE tok.v

ReaderJustRead == last_op = "reader" /\ ~rx.raises

\* C6: after a well-formed STATUS line the snapshot holds that line's temperature,
\* IR and LDR values, and leak = (ir > 500), bubble = (ldr < 400),
\* high_temp = (t > 38.0) of those values alone.
C6_StatusStored ==
    (ReaderJustRead /\ WellFormedStatus(rx.line)) =>
        LET f == rx.line.fields
        IN  /\ arduino_status.temperature = Tenths(f[2])
            /\ arduino_status.ir_value = f[3].v
            /\ arduino_status.ldr_value = f[4].v
            /\ arduino_status.leak_detected = (f[3].v > 500)
            /\ arduino_status.bubble_detected = (f[4].v < 400)
            /\ arduino_status.high_temp = (Tenths(f[2]) > 380)

\* all three flags were raised before the line and are clear after it
C6_Witness ==
    /\ ReaderJustRead /\ WellFormedStatus(rx.line)
    /\ rx.before.status.leak_detected
    /\ rx.before.status.bubble_detected
    /\ rx.before.status.high_temp
    /\ ~arduino_status.leak_detected
    /\ ~arduino_status.bubble_detected
    /\ ~arduino_status.high_temp

\* C7: a malformed STATUS line leaves temperature, ir_value, ldr_value, cv_state,
\* the three fault flags and the three history buffers as they were.
C7_MalformedDropped ==
    (ReaderJustRead /\ MalformedStatus(rx.line)) =>
        /\ \A k \in {"temperature", "ir_value", "ldr_value", "cv_state",
                     "leak_detected", "bubble_detected", "high_temp"} :
              arduino_status[k] = rx.before.status[k]
        /\ temp_history = rx.before.temp
        /\ ir_history = rx.before.ir
        /\ ldr_history = rx.before.ldr

\* C8: a malformed inbound frame does not change the connection state: the
\* handle serial_conn is not cleared and connected keeps its value.
C8_MalformedKeepsLink ==
    (ReaderJustRead /\ MalformedStatus(rx.line)) =>
        /\ serial_conn = rx.before.conn
        /\ arduino_status.connected = rx.before.status.connected

\* C9: a received line sets last_heartbeat to the current time and connected to
\* true iff it is a STATUS line with at least 4 fields; every other line leaves
\* last_heartbeat and connected unchanged.
C9_HeartbeatOnlyValid ==
    ReaderJustRead =>
        IF rx.line.prefix = "STATUS:" /\ Len(rx.line.fields) >= 4
        THEN /\ arduino_status.last_heartbeat = rx.t
             /\ arduino_status.connected
        ELSE /\ arduino_status.last_heartbeat = rx.before.status.last_heartbeat
             /\ arduino_status.connected = rx.before.status.connected

\* C10 as stated: in every reachable state connected implies a heartbeat no
\* older than 5 s.
C10_AsStated ==
    arduino_status.connected => now - arduino_status.last_heartbeat <= 50

\* C10 as amended: when update_dashboard has just run its staleness check,
\* connected implies a heartbeat no older than 5 s.
C10_FreshAfterCheck ==
    (last_op = "dashboard" /\ arduino_status.connected) =>
        now - arduino_status.last_heartbeat <= 50

\* the check has just found the heartbeat stale and disconnected, the handle open
C10_Witness ==
    /\ last_op = "dashboard"
    /\ ~arduino_status.connected
    /\ serial_conn = "open"
    /\ now - arduino_status.last_heartbeat > 50
    /\ Last(event_log) = [level |-> "ERROR", msg |-> "Arduino heartbeat lost!"]

\* every line the reader thread has processed so far (at most one) was something
\* other than a valid STATUS line
NoValidStatus == rx.n <= 1 /\ (rx.n = 1 => ~WellFormedStatus(rx.line))

\* C11: once more than 5 s have passed without a valid STATUS line, the handle
\* still open, a dashboard tick leaves connected false and an ERROR-level
\* 'heartbeat lost' entry in the event log.
C11_HeartbeatLost ==
    (/\ last_op = "dashboard"
     /\ serial_conn = "open"
     /\ NoValidStatus
     /\ now - StartTime > 50)
    => /\ ~arduino_status.connected
       /\ \E i \in DOMAIN event_log :
             event_log[i] = [level |-> "ERROR", msg |-> "Arduino heartbeat lost!"]

\* ------------------------------------------------------------ claims: threads
\* C12: send_to_arduino never lets an exception reach its caller, whatever the
\* reader thread does meanwhile; a call that returns True found the handle open,
\* and a call that fails returns False with an ERROR entry logged, serial_conn
\* None and connected false.
C12_SendNeverRaises ==
    /\ send_result # "raised"
    /\ (last_op = "send" /\ send_result = "True") => serial_conn = "open"
    /\ (last_op = "send" /\ send_result = "failed") =>
          /\ serial_conn = "None"
          /\ ~arduino_status.connected
          /\ Last(event_log) = [level |-> "ERROR", msg |-> "Serial write error"]

C14_MutualExclusion ==
    /\ ~(pc.reader = "readline" /\ pc.main = "write")
    /\ pc.reader = "readline" <=> serial_lock = "reader"
    /\ pc.main = "write" <=> serial_lock = "main"
    /\ (pc.reader # "readline" /\ pc.main # "write") => serial_lock = "free"

\* the reader thread's readline() has raised and released the lock, and
\* send_to_arduino has taken it since
C14_Witness ==
    /\ pc.reader = "except" /\ rx.raises
    /\ pc.main = "write"
    /\ serial_lock = "main"

\* ------------------------------------------------------------ claims: writers
\* C15: no handler of the main context (video tick, dashboard tick, send)
\* changes arduino_status or the handle serial_conn: the reader thread is their
\* only writer.
C15_SingleWriter ==
    [][last_op' \in {"video", "dashboard", "send"}
          => (arduino_status' = arduino_status /\ serial_conn' = serial_conn)]_vars

\* C16: once an except branch of the reader thread or of send_to_arduino has
\* run, serial_conn is None and connected is false in every later state (looked
\* at when the reader thread is back at the head of its loop and no send is in
\* progress).
C16_StaysDown ==
    (io_failed /\ pc.reader = "test" /\ pc.main = "idle")
        => (serial_conn = "None" /\ ~arduino_status.connected)

\* ------------------------------------------------------------ claims: start-up
\* C17: when open_serial has failed (no port, or an exception), serial_conn is
\* None, the reader thread is never started, connected stays false, every frame
\* with an image still publishes its pose, and every send_to_arduino call
\* returns False without writing.
C17_PoseOnly ==
    startup.how \in {"noport", "error"} =>
        /\ serial_conn = "None"
        /\ pc.reader = "off"
        /\ ~arduino_status.connected
        /\ cv_status.messages_sent = 0
        /\ ~tx.ret /\ ~last_frame.wrote
        /\ last_frame.kind \in {"face", "noface"} =>
              /\ cv_status.state = last_frame.code
              /\ cv_status.head_tilt = last_frame.tilt
              /\ last_frame.kind = "noface" => cv_status.state = 3
              /\ last_frame.kind = "face" =>
                    cv_status.state = IF MeanOfLast5(raw_seen) < 40 * TiltScale
                                      THEN 1 ELSE 0

\* after a failed handshake a frame has published POSSIBLE_DROOP and called
\* send_to_arduino, and the dashboard tick has run since
C17_Witness ==
    /\ startup.how = "error"
    /\ last_op = "dashboard"
    /\ last_frame.kind = "face" /\ cv_status.state = 1
    /\ tx.called /\ ~tx.ret
    /\ Last(event_log) = [level |-> "WARN", msg |-> "Running in CV-only mode"]

C19_AsStated ==
    last_frame.kind = "noface" =>
        /\ cv_status.state = 3 /\ cv_status.head_tilt = 0
        /\ last_frame.path = "missing" <=> (face_t # None /\ last_frame.t - face_t > 50)
        /\ last_frame.fired <=>
              (last_frame.path = "missing" /\ last_frame.t - last_frame.alarm0 > 30)

\* C19 as amended: the 5 s are counted from the last frame in which a face was
\* seen or, as long as no face has been seen, from the time the module was
\* loaded, which is before open_serial ran.
C19_MissingPath ==
    last_frame.kind = "noface" =>
        LET since == IF face_t # None THEN face_t ELSE StartTime - startup.took
        IN  /\ cv_status.state = 3 /\ cv_status.head_tilt = 0
            /\ last_frame.path = "missing" <=> last_frame.t - since > 50
            /\ last_frame.fired <=>
                  (last_frame.path = "missing" /\ last_frame.t - last_frame.alarm0 > 30)

\* the face staying absent, the missing-patient alarm has fired a second time,
\* a frame on the missing-patient path having been held back by the cooldown
C19_Witness ==
    /\ last_frame.kind = "noface" /\ last_frame.fired
    /\ Len(alarm_times) = 2
    /\ \A i \in 1..2 : alarm_times[i].kind = "missing"
    /\ <<"missing", "missing">> \in suppressed

\* C20: a video tick on which the camera delivers no image, or on which the
\* processing raises before the pose is computed, publishes code 3 and tilt 0.0.
C20_FailedFramePublishesNoFace ==
    last_frame.kind \in {"noimage", "raise"} =>
        /\ cv_status.state = 3
        /\ cv_status.head_tilt = 0

\* ------------------------------------------------------------ claims: histories
\* C21: after n valid STATUS lines each history buffer holds the most recent
\* min(50, n) samples in arrival order, never more than 50: after 51 of them
\* the first sample is gone and the newest is the last entry.
C21_HistoryWindow ==
    LET n == rx.valid
        k == IF n < 50 THEN n ELSE 50
    IN  /\ Len(temp_history) = k /\ Len(ir_history) = k /\ Len(ldr_history) = k
        /\ \A j \in 1..k :
              LET f == Sample(n - k + j).fields
              IN  /\ temp_history[j] = f[2].v
                  /\ ir_history[j] = f[3].v
                  /\ ldr_history[j] = f[4].v
        /\ n = 51 =>
              /\ \A j \in 1..50 : ir_history[j] # 1
              /\ ir_history[50] = 51

\* the 51st sample has been stored, with lines that are no samples in between
C21_Witness ==
    /\ rx.valid = 51
    /\ rx.n = 52
    /\ Len(ir_history) = 50
    /\ ir_history[1] = 2 /\ ir_history[50] = 51
    /\ temp_history[1] = 302 /\ ldr_history[50] = 949

\* ------------------------------------------------------------ claims: dashboard
\* the stored temperature is a sensor-fault value: -127.0 or below -100
SensorFault(temp) == temp = -1270 \/ temp < -1000

\* C22: when update_dashboard has run with a sensor-fault temperature stored,
\* the temperature counted as an issue and the health shown is below 100%.
C22_FaultCounted ==
    (last_op = "dashboard" /\ SensorFault(arduino_status.temperature))
        => (panel.temp_issue /\ panel.issues >= 1 /\ panel.health < 100)

\* ------------------------------------------------------------ claims: face gap
\* C23: a run of update_video that finds no face leaves droop_start_time and
\* tilt_buffer as they were; so when a droop episode is in progress and the
\* first face frame after the no-face frames comes 1 s or more after the last
\* face frame with the smoothed tilt below the threshold, that frame is
\* published as state 2 (HEAD DROOP), not as state 1.
C23_GapKeepsEpisode ==
    [][ /\ (last_op' = "video" /\ last_frame'.kind = "noface")
            => (droop_start_time' = droop_start_time /\ tilt_buffer' = tilt_buffer)
        /\ (/\ last_op' = "video"
            /\ last_frame.kind = "noface"
            /\ last_frame'.kind = "face"
            /\ droop_start_time # None
            /\ now' - last_seen >= DROOP_SUSTAIN_SECS
            /\ BelowThreshold(cv_status'.head_tilt))
            => (cv_status'.state = 2 /\ last_frame'.code = 2
                /\ droop_start_time' = droop_start_time)
      ]_vars

\* the face came back 1 s or more after it was lost during a droop episode,
\* and the frame was published as HEAD DROOP
C23_Witness ==
    /\ last_frame.kind = "face"
    /\ last_frame.prev = "noface"
    /\ last_frame.dst0 # None
    /\ last_frame.dst0 <= last_frame.seen0
    /\ last_frame.t - last_frame.seen0 >= DROOP_SUSTAIN_SECS
    /\ BelowThreshold(cv_status.head_tilt)
    /\ cv_status.state = 2
    /\ droop_start_time = last_frame.dst0

\* ------------------------------------------------------------ claims: device alarm
\* C24: a pass of the reader thread over an EMERGENCY: line appends exactly one
\* entry, of level ALARM, to the event log and leaves last_alarm_time as it
\* was, whatever the time since the last local alarm.
C24_DeviceAlarm ==
    [][ (last_op' = "reader" /\ rx'.n = rx.n + 1 /\ ~rx'.raises
         /\ rx'.line.prefix = "EMERGENCY:")
            => /\ event_log' = DequeAppend(event_log,
                                           [level |-> "ALARM", msg |-> "device text"],
                                           LOG_MAXLEN)
               /\ last_alarm_time' = last_alarm_time
               /\ arduino_status' = arduino_status
      ]_vars

\* the device's alarm is logged right after a local missing-patient alarm,
\* inside the local cooldown
C24_Witness ==
    /\ last_op = "reader"
    /\ rx.line.prefix = "EMERGENCY:"
    /\ Len(event_log) >= 2
    /\ event_log[Len(event_log)] = [level |-> "ALARM", msg |-> "device text"]
    /\ event_log[Len(event_log) - 1] =
           [level |-> "ALARM", msg |-> "Patient missing for 5+ seconds"]
    /\ last_alarm_time = last_frame.t
    /\ last_frame.fired
    /\ now - last_alarm_time <= ALARM_COOLDOWN_SECS

\* ------------------------------------------------------------ claims: staleness race
\* C25: whenever update_dashboard writes connected = False, the heartbeat is
\* stale at the moment of the write (now - last_heartbeat > 5 s).
C25_StaleAtWrite ==
    [][ (pc.main = "lost" /\ pc'.main = "idle")
            => now - arduino_status.last_heartbeat > HEARTBEAT_TIMEOUT ]_vars

\* ------------------------------------------------------------ claims: recovery
\* C26: a heartbeat-loss disconnect by update_dashboard clears connected and
\* keeps the handle open; a well-formed STATUS line read while connected is
\* false and the handle is open sets connected = true and last_heartbeat to
\* the time of the read, on the same handle.
C26_Recovers ==
    /\ (last_op = "dashboard" /\ panel.link = "No Heartbeat")
           => (~arduino_status.connected /\ serial_conn = "open")
    /\ (ReaderJustRead /\ WellFormedStatus(rx.line) /\ ~rx.before.status.connected)
           => /\ arduino_status.connected
              /\ arduino_status.last_heartbeat = rx.t
              /\ rx.t = now
              /\ rx.before.conn = "open"
              /\ serial_conn = "open"

\* the line read right after 'Arduino heartbeat lost!' was logged brought the
\* link back
C26_Witness ==
    /\ ReaderJustRead
    /\ WellFormedStatus(rx.line)
    /\ ~rx.before.status.connected
    /\ rx.before.log # <<>>
    /\ Last(rx.before.log) = [level |-> "ERROR", msg |-> "Arduino heartbeat lost!"]
    /\ panel.link = "No Heartbeat"
    /\ arduino_status.connected
    /\ arduino_status.last_heartbeat = now
    /\ now - rx.before.status.last_heartbeat > HEARTBEAT_TIMEOUT
    /\ serial_conn = "open"

====
